---- MODULE Spec2Model ----
(***************************************************************************)
(* Model of astrbot_plugin_regex (src/main.py): the RegexCuttingLab plugin *)
(* compiles an ordered list of regex rules from its configuration, caches  *)
(* the compiled list against a signature of the configuration and applies  *)
(* the rules of the matching scope to LLM requests and responses.          *)
(*                                                                         *)
(* Python values are encoded as strings.  A string that does not start     *)
(* with "<" is the Python str of the same text; "<missing>" is an absent   *)
(* dict key, "<None>" is None, "<int 0>" the int 0, "<float inf>" the      *)
(* float infinity, and so on.  Texts the pipeline rewrites are sequences   *)
(* of one-character strings.                                               *)
(***************************************************************************)
EXTENDS Integers, Sequences, FiniteSets, TLC

VARIABLES
    config,                 \* self.config: [enabled, rules_json, rules]
    compiled_rules,         \* self._compiled_rules
    signature,              \* self._signature
    has_user_scoped_rules,  \* self._has_user_scoped_rules
    has_ai_scoped_rules,    \* self._has_ai_scoped_rules
    phase,                  \* "constructed", then "ready" or, initialize() raising, "failed"
    refresh,                \* what the most recent _ensure_rules call did
    call,                   \* the most recent hook invocation and its effect
    pending                 \* the hook coroutines created and not yet run

vars == <<config, compiled_rules, signature, has_user_scoped_rules,
          has_ai_scoped_rules, phase, refresh, call, pending>>

----------------------------------------------------------------------------
(* Bounds of the exploration *)

MaxRules == 2       \* longest raw rule list in a configuration
MaxLen == 2         \* longest text handed to a hook

----------------------------------------------------------------------------
(* Encoded Python values *)

Missing == "<missing>"
None == "<None>"

NonStrValues == {"<missing>", "<None>", "<True>", "<False>", "<int 0>", "<int 1>",
                 "<int 2>", "<int 7>", "<float 2.5>", "<float inf>", "<float nan>"}

\* isinstance(v, str)
IsStr(v) == v \notin NonStrValues

\* bool(v)
Truthy(v) == v \notin {"<missing>", "<None>", "<False>", "<int 0>", ""}

\* str(v)
Str(v) ==
    CASE v = "<None>" -> "None"
      [] v = "<True>" -> "True"
      [] v = "<False>" -> "False"
      [] v = "<int 0>" -> "0"
      [] v = "<int 1>" -> "1"
      [] v = "<int 2>" -> "2"
      [] v = "<int 7>" -> "7"
      [] v = "<float 2.5>" -> "2.5"
      [] v = "<float inf>" -> "inf"
      [] v = "<float nan>" -> "nan"
      [] OTHER -> v

\* dict.get(key, default): the stored value, or the default for an absent key
Get(v, default) == IF v = Missing THEN default ELSE v

\* str.strip().lower() / str.strip().upper() on the strings of the model
StripLower(s) ==
    CASE s = " Both " -> "both"
      [] s = "USER_INPUT" -> "user_input"
      [] OTHER -> s

StripUpper(s) ==
    CASE s = "ignorecase" -> "IGNORECASE"
      [] s = " locale " -> "LOCALE"
      [] s = " " -> ""
      [] OTHER -> s

----------------------------------------------------------------------------
(* Module constants of main.py *)

SCOPE_OPTIONS == {"user_input", "ai_output", "both"}

FLAG_SYMBOLS == {"ASCII", "IGNORECASE", "LOCALE", "MULTILINE", "DOTALL", "VERBOSE", "UNICODE"}

----------------------------------------------------------------------------
(* RuntimeRegexRule.applies_to *)

\* mutant: the ai_output branch forgets the scope of the rule
applies_to_any_output(rule, target_scope) ==
    CASE target_scope = "user_input" -> rule.scope \in {"user_input", "both"}
      [] target_scope = "ai_output" -> TRUE
      [] OTHER -> FALSE

applies_to(rule, target_scope) ==
    CASE target_scope = "user_input" -> rule.scope \in {"user_input", "both"}
      [] target_scope = "ai_output" -> rule.scope \in {"ai_output", "both"}
      [] OTHER -> FALSE

----------------------------------------------------------------------------
(* The static helpers of RegexCuttingLab *)

\* mutant: an unrecognized scope falls back to both
normalize_scope_fallback_both(raw_scope) ==
    IF IsStr(raw_scope) /\ StripLower(raw_scope) \in SCOPE_OPTIONS
    THEN [scope |-> StripLower(raw_scope), logs |-> 0]
    ELSE [scope |-> "both", logs |-> IF raw_scope # None THEN 1 ELSE 0]

\* _normalize_scope: the scope, and the number of warnings it logs
normalize_scope(raw_scope) ==
    IF IsStr(raw_scope) /\ StripLower(raw_scope) \in SCOPE_OPTIONS
    THEN [scope |-> StripLower(raw_scope), logs |-> 0]
    ELSE [scope |-> "ai_output", logs |-> IF raw_scope # None THEN 1 ELSE 0]

\* the tokens of a sequence after strip/upper, empty ones dropped
RECURSIVE UpperTokens(_)
UpperTokens(toks) ==
    IF toks = <<>> THEN <<>>
    ELSE LET t == StripUpper(Str(Head(toks)))
         IN  IF t = "" THEN UpperTokens(Tail(toks))
             ELSE <<t>> \o UpperTokens(Tail(toks))

\* _normalize_flags.  Raw flags are [form, toks]: form "str" is a string whose
\* pieces between the delimiters | , and whitespace are toks, form "list" is a
\* list of toks, form "other" is a value that is neither str nor iterable.
normalize_flags(raw_flags) ==
    IF raw_flags.form \in {"str", "list"} THEN UpperTokens(raw_flags.toks) ELSE <<>>

\* _flags_to_value: the set of recognized flags (the bitmask) and the number of
\* warnings logged for unrecognized tokens
RECURSIVE flags_to_value(_)
flags_to_value(tokens) ==
    IF tokens = <<>> THEN [value |-> {}, logs |-> 0]
    ELSE LET rest == flags_to_value(Tail(tokens))
         IN  IF Head(tokens) \in FLAG_SYMBOLS
             THEN [value |-> {Head(tokens)} \cup rest.value, logs |-> rest.logs]
             ELSE [value |-> rest.value, logs |-> rest.logs + 1]

\* int(value) as _safe_int calls it: the integer, or the exception raised
IntOf(value) ==
    CASE value = "<int 0>" -> [exc |-> "none", int |-> 0]
      [] value = "<int 1>" -> [exc |-> "none", int |-> 1]
      [] value = "<int 2>" -> [exc |-> "none", int |-> 2]
      [] value = "<int 7>" -> [exc |-> "none", int |-> 7]
      [] value = "<True>" -> [exc |-> "none", int |-> 1]
      [] value = "<False>" -> [exc |-> "none", int |-> 0]
      [] value = "<float 2.5>" -> [exc |-> "none", int |-> 2]
      [] value = "2" -> [exc |-> "none", int |-> 2]
      [] value = "<float nan>" -> [exc |-> "ValueError", int |-> 0]
      [] value = "<float inf>" -> [exc |-> "OverflowError", int |-> 0]
      [] value = "<None>" -> [exc |-> "TypeError", int |-> 0]
      [] OTHER -> [exc |-> "ValueError", int |-> 0]

\* _safe_int: catches TypeError and ValueError only
safe_int(value, fallback) ==
    LET r == IntOf(value)
    IN  CASE r.exc = "none" -> [exc |-> "none", int |-> r.int]
          [] r.exc \in {"TypeError", "ValueError"} -> [exc |-> "none", int |-> fallback]
          [] OTHER -> [exc |-> r.exc, int |-> 0]

----------------------------------------------------------------------------
(* The regex engine as the plugin uses it: re.compile and Pattern.sub.      *)
(* Pattern texts of the model are single literal characters, the empty      *)
(* pattern and the unbalanced group "(".                                    *)

\* re.compile(pattern, flags): the pattern is parsed first (re.error), then
\* the flags are checked against a str pattern (ValueError)
re_compile(pattern_text, flag_value) ==
    CASE pattern_text = "(" -> [exc |-> "re.error", compiled |-> [pat |-> "", flags |-> {}]]
      [] pattern_text # "(" /\ "LOCALE" \in flag_value ->
            [exc |-> "ValueError", compiled |-> [pat |-> "", flags |-> {}]]
      [] pattern_text # "(" /\ {"ASCII", "UNICODE"} \subseteq flag_value ->
            [exc |-> "ValueError", compiled |-> [pat |-> "", flags |-> {}]]
      [] OTHER -> [exc |-> "none", compiled |-> [pat |-> pattern_text, flags |-> flag_value]]

LowerChar(c) == IF c = "A" THEN "a" ELSE c

\* whether the compiled one-character pattern matches the character c
Matches(compiled, c) ==
    \/ compiled.pat = c
    \/ "IGNORECASE" \in compiled.flags /\ LowerChar(compiled.pat) = LowerChar(c)

\* the characters a replacement template expands to (no group references)
TemplateChars(replacement) ==
    CASE replacement = "" -> <<>>
      [] replacement = "ab" -> <<"a", "b">>
      [] OTHER -> <<replacement>>

\* a template that refers to group 1, which no pattern of the model has
BadTemplate(replacement) == replacement = "\\1"

RECURSIVE SubChars(_, _, _)
SubChars(compiled, repl_chars, text) ==
    IF text = <<>> THEN <<>>
    ELSE (IF Matches(compiled, Head(text)) THEN repl_chars ELSE <<Head(text)>>)
         \o SubChars(compiled, repl_chars, Tail(text))

\* Pattern.sub(replacement, text): the template is parsed before any match
re_sub(compiled, replacement, text) ==
    IF BadTemplate(replacement)
    THEN [exc |-> "re.error", text |-> text]
    ELSE [exc |-> "none", text |-> SubChars(compiled, TemplateChars(replacement), text)]

----------------------------------------------------------------------------
(* RegexCuttingLab._run_pipeline *)

\* mutant: the last matching rule substitutes in the input text, not in the
\* output of the matching rules before it
RECURSIVE run_pipeline_on_input(_, _, _)
run_pipeline_on_input(rules, text, target_scope) ==
    IF rules = <<>> THEN [exc |-> "none", text |-> text]
    ELSE IF applies_to(rules[Len(rules)], target_scope)
         THEN re_sub(rules[Len(rules)].compiled, rules[Len(rules)].replacement, text)
         ELSE run_pipeline_on_input(SubSeq(rules, 1, Len(rules) - 1), text, target_scope)

RECURSIVE run_pipeline(_, _, _)
run_pipeline(rules, text, target_scope) ==
    IF rules = <<>> THEN [exc |-> "none", text |-> text]
    ELSE IF applies_to(Head(rules), target_scope)
         THEN LET Subbed(r) == IF r.exc # "none" THEN r
                               ELSE run_pipeline(Tail(rules), r.text, target_scope)
              IN  Subbed(re_sub(Head(rules).compiled, Head(rules).replacement, text))
         ELSE run_pipeline(Tail(rules), text, target_scope)

----------------------------------------------------------------------------
(* RegexCuttingLab._ensure_rules *)

\* json.loads(text): rules_json is [kind, items]; kind "array" is the text of a
\* JSON array of items, "object" the text of a JSON object, "garbage" a text
\* that is not JSON, "blank" a whitespace-only text, "missing" an absent key,
\* "notstr" a value that is not a string
json_loads(rules_json) ==
    CASE rules_json.kind = "array" -> [exc |-> "none", isList |-> TRUE, items |-> rules_json.items]
      [] rules_json.kind = "object" -> [exc |-> "none", isList |-> FALSE, items |-> <<>>]
      [] OTHER -> [exc |-> "JSONDecodeError", isList |-> FALSE, items |-> <<>>]

\* `if self.config:` an AstrBotConfig is a dict, false when it has no key
ConfigTruthy(cfg) ==
    ~(cfg.enabled = Missing /\ cfg.rules_json.kind = "missing" /\ cfg.rules.kind = "missing")

\* lines 73-97: the raw rule list the refresh works on
RawRules(cfg) ==
    IF ~ConfigTruthy(cfg) THEN <<>>
    ELSE LET fromJson ==
                 IF cfg.rules_json.kind \in {"array", "object", "garbage"}
                 THEN LET parsed == json_loads(cfg.rules_json)
                      IN  IF parsed.exc = "none" /\ parsed.isList THEN parsed.items ELSE <<>>
                 ELSE <<>>
         IN  IF fromJson # <<>> THEN fromJson
             ELSE IF cfg.rules.kind = "missing" THEN <<>>
             ELSE IF cfg.rules.kind = "list" THEN cfg.rules.items
             ELSE <<>>

\* f"Rule {index + 1}"
RuleLabel(n) ==
    CASE n = 1 -> "Rule 1" [] n = 2 -> "Rule 2" [] n = 3 -> "Rule 3"
      [] n = 4 -> "Rule 4" [] OTHER -> "Rule 5"

NoRule == [identifier |-> "", scope |-> "", order |-> 0,
           compiled |-> [pat |-> "", flags |-> {}], replacement |-> "", origin_index |-> 0]

\* mutant: a disabled entry is compiled like an enabled one
CompileItem_ignores_enabled(index, name, ns, pattern_text, replacement_text, order_value, flag_tokens, enabled, sig) ==
    IF ~Truthy(pattern_text)
    THEN [kind |-> "signed", exc |-> "none", sig |-> sig, rule |-> NoRule,
          compiles |-> 0, logs |-> ns.logs + 1]
    ELSE LET Compiled(fv, c) ==
               IF c.exc = "re.error"
               THEN [kind |-> "signed", exc |-> "none", sig |-> sig, rule |-> NoRule,
                     compiles |-> 1, logs |-> ns.logs + fv.logs + 1]
               ELSE IF c.exc # "none"
               THEN [kind |-> "raised", exc |-> c.exc, sig |-> sig, rule |-> NoRule,
                     compiles |-> 1, logs |-> ns.logs + fv.logs]
               ELSE [kind |-> "candidate", exc |-> "none", sig |-> sig,
                     rule |-> [identifier |-> name, scope |-> ns.scope,
                               order |-> order_value, compiled |-> c.compiled,
                               replacement |-> replacement_text,
                               origin_index |-> index],
                     compiles |-> 1, logs |-> ns.logs + fv.logs]
             Flagged(fv) == Compiled(fv, re_compile(Str(pattern_text), fv.value))
         IN  Flagged(flags_to_value(flag_tokens))

\* lines 130-161: the entry after its signature tuple sig is appended
CompileItem(index, name, ns, pattern_text, replacement_text, order_value, flag_tokens, enabled, sig) ==
    IF ~enabled
    THEN [kind |-> "signed", exc |-> "none", sig |-> sig, rule |-> NoRule,
          compiles |-> 0, logs |-> ns.logs]
    ELSE IF ~Truthy(pattern_text)
    THEN [kind |-> "signed", exc |-> "none", sig |-> sig, rule |-> NoRule,
          compiles |-> 0, logs |-> ns.logs + 1]
    ELSE LET Compiled(fv, c) ==
               IF c.exc = "re.error"
               THEN [kind |-> "signed", exc |-> "none", sig |-> sig, rule |-> NoRule,
                     compiles |-> 1, logs |-> ns.logs + fv.logs + 1]
               ELSE IF c.exc # "none"
               THEN [kind |-> "raised", exc |-> c.exc, sig |-> sig, rule |-> NoRule,
                     compiles |-> 1, logs |-> ns.logs + fv.logs]
               ELSE [kind |-> "candidate", exc |-> "none", sig |-> sig,
                     rule |-> [identifier |-> name, scope |-> ns.scope,
                               order |-> order_value, compiled |-> c.compiled,
                               replacement |-> replacement_text,
                               origin_index |-> index],
                     compiles |-> 1, logs |-> ns.logs + fv.logs]
             Flagged(fv) == Compiled(fv, re_compile(Str(pattern_text), fv.value))
         IN  Flagged(flags_to_value(flag_tokens))

\* mutant: the signature tuple leaves the replacement text out
NormalizeItem_no_replacement(index, item, name, ns, pattern_text, replacement_text, ord, flag_tokens, enabled) ==
    IF ord.exc # "none"
    THEN [kind |-> "raised", exc |-> ord.exc, sig |-> <<>>, rule |-> NoRule,
          compiles |-> 0, logs |-> ns.logs]
    ELSE CompileItem(index, name, ns, pattern_text, replacement_text, ord.int,
                     flag_tokens, enabled,
                     <<name, ns.scope, Str(pattern_text), "",
                       flag_tokens, enabled, ord.int>>)

\* lines 109-128: the normalized fields of a dict entry and its signature tuple
NormalizeItem(index, item, name, ns, pattern_text, replacement_text, ord, flag_tokens, enabled) ==
    IF ord.exc # "none"
    THEN [kind |-> "raised", exc |-> ord.exc, sig |-> <<>>, rule |-> NoRule,
          compiles |-> 0, logs |-> ns.logs]
    ELSE CompileItem(index, name, ns, pattern_text, replacement_text, ord.int,
                     flag_tokens, enabled,
                     <<name, ns.scope, Str(pattern_text), replacement_text,
                       flag_tokens, enabled, ord.int>>)

\* lines 103-161: one pass of the loop body for raw_rules[index].
\* kind: "skipped" (not a dict), "raised", "signed" (signature tuple only),
\* "candidate" (signature tuple and compiled rule)
ProcessItem(index, item) ==
    IF ~item.dict
    THEN [kind |-> "skipped", exc |-> "none", sig |-> <<>>, rule |-> NoRule,
          compiles |-> 0, logs |-> 1]
    ELSE NormalizeItem(index, item,
             IF Truthy(item.name) THEN Str(item.name) ELSE RuleLabel(index + 1),
             normalize_scope(Get(item.scope, None)),
             Get(item.pattern, ""),
             IF Get(item.replacement, "") = None THEN ""
             ELSE Str(Get(item.replacement, "")),
             safe_int(Get(item.order, None), (index + 1) * 100),
             normalize_flags(IF item.flags.form = "missing"
                             THEN [form |-> "list", toks |-> <<>>] ELSE item.flags),
             Truthy(Get(item.enabled, "<True>")))

\* lines 99-161: the loop over enumerate(raw_rules), from position index on
RECURSIVE CompileLoop(_, _, _)
CompileLoop(raw_rules, index, acc) ==
    IF index >= Len(raw_rules) THEN acc
    ELSE LET Step(p) ==
               LET next == [exc |-> p.exc,
                            signature |-> IF p.kind \in {"signed", "candidate"}
                                          THEN Append(acc.signature, p.sig)
                                          ELSE acc.signature,
                            candidates |-> IF p.kind = "candidate"
                                           THEN Append(acc.candidates, p.rule)
                                           ELSE acc.candidates,
                            compiles |-> acc.compiles + p.compiles,
                            logs |-> acc.logs + p.logs]
               IN  IF p.kind = "raised" THEN next
                   ELSE CompileLoop(raw_rules, index + 1, next)
         IN  Step(ProcessItem(index, raw_rules[index + 1]))

\* key=lambda rule: (rule.order, rule.origin_index)
KeyLess(r1, r2) ==
    \/ r1.order < r2.order
    \/ r1.order = r2.order /\ r1.origin_index < r2.origin_index

RECURSIVE InsertRule(_, _)
InsertRule(sorted, rule) ==
    IF sorted = <<>> THEN <<rule>>
    ELSE IF KeyLess(rule, Head(sorted)) THEN <<rule>> \o sorted
    ELSE <<Head(sorted)>> \o InsertRule(Tail(sorted), rule)

\* mutant: the candidates are stored in declaration order
SortRules_unsorted(candidates) == candidates

\* candidates.sort(key=...): a stable sort
RECURSIVE SortRules(_)
SortRules(candidates) ==
    IF candidates = <<>> THEN <<>>
    ELSE InsertRule(SortRules(SubSeq(candidates, 1, Len(candidates) - 1)),
                    candidates[Len(candidates)])

\* mutant: only the first rule of the snapshot is asked
AnyAppliesTo_first_only(rules, target_scope) ==
    rules # <<>> /\ applies_to(rules[1], target_scope)

AnyAppliesTo(rules, target_scope) ==
    \E i \in 1..Len(rules) : applies_to(rules[i], target_scope)

\* mutant: a comparison that never finds the two equal
SignatureChanged_always(new_signature, stored_signature) == TRUE

\* whether the comparison of line 164 finds the signature changed
SignatureChanged(new_signature, stored_signature) == new_signature # stored_signature

\* _ensure_rules: the cache after the call and what the call did.
\* cur is [compiled_rules, signature, has_user, has_ai].
ensure_rules(cfg, cur) ==
    LET Finish(loop) ==
          IF loop.exc # "none"
          THEN [cache |-> cur,
                did |-> [exc |-> loop.exc, swapped |-> FALSE, sig_equal |-> FALSE,
                         compiles |-> loop.compiles, logs |-> loop.logs]]
          ELSE IF ~SignatureChanged(loop.signature, cur.signature)
          THEN [cache |-> cur,
                did |-> [exc |-> "none", swapped |-> FALSE, sig_equal |-> TRUE,
                         compiles |-> loop.compiles, logs |-> loop.logs]]
          ELSE LET Swap(sorted) ==
                     [cache |-> [compiled_rules |-> sorted,
                                 signature |-> loop.signature,
                                 has_user |-> AnyAppliesTo(sorted, "user_input"),
                                 has_ai |-> AnyAppliesTo(sorted, "ai_output")],
                      did |-> [exc |-> "none", swapped |-> TRUE, sig_equal |-> FALSE,
                               compiles |-> loop.compiles, logs |-> loop.logs]]
               IN  Swap(SortRules(loop.candidates))
    IN  Finish(CompileLoop(RawRules(cfg), 0,
                   [exc |-> "none", signature |-> <<>>, candidates |-> <<>>,
                    compiles |-> 0, logs |-> 0]))

\* mutant: the switch is not read
is_enabled_always(cfg) == TRUE

\* _is_enabled
is_enabled(cfg) == Truthy(Get(cfg.enabled, "<True>"))

----------------------------------------------------------------------------
(* The structured walkers and the two hooks *)

\* A request is [prompt, contexts]; prompt is [isStr, text]; contexts is
\* [isList, items] (isList FALSE is None).  A context message is
\* [dict, role, content]; content is [kind, text, segments] with kind "str",
\* "list" or "other"; a segment is [dict, type, text].
\* A response is [result_chain, completion_text]; result_chain is
\* [exists, chain] (exists FALSE is None); a component is [plain, text] (plain
\* FALSE: any component that is not message_components.Plain, text then names
\* the object).  completion_text is the flat text field the code reads and
\* writes as response.completion_text and response._completion_text.

\* lines 292-303: the content blocks of one user message
RECURSIVE WalkSegments(_, _)
WalkSegments(rules, segments) ==
    IF segments = <<>> THEN [exc |-> "none", segments |-> <<>>, mutated |-> FALSE]
    ELSE LET segment == Head(segments)
             Walked(r) ==
               IF r.exc # "none"
               THEN [exc |-> r.exc, segments |-> segments, mutated |-> FALSE]
               ELSE LET Rest(rest) ==
                          [exc |-> rest.exc,
                           mutated |-> (r.text # segment.text) \/ rest.mutated,
                           segments |-> <<[segment EXCEPT !.text = r.text]>>
                                        \o rest.segments]
                    IN  Rest(WalkSegments(rules, Tail(segments)))
         IN  Walked(IF segment.dict /\ segment.type = "text"
                    THEN run_pipeline(rules, segment.text, "user_input")
                    ELSE [exc |-> "none", text |-> segment.text])

\* mutant: the role of the record is not looked at
WalkMessage_any_role(rules, message) ==
    IF ~message.dict
    THEN [exc |-> "none", message |-> message, mutated |-> FALSE]
    ELSE IF message.content.kind = "str"
    THEN LET Walked(r) ==
               [exc |-> r.exc, mutated |-> r.exc = "none" /\ r.text # message.content.text,
                message |-> IF r.exc = "none"
                            THEN [message EXCEPT !.content.text = r.text] ELSE message]
         IN  Walked(run_pipeline(rules, message.content.text, "user_input"))
    ELSE IF message.content.kind = "list"
    THEN LET Walked(w) ==
               [exc |-> w.exc, mutated |-> w.mutated,
                message |-> [message EXCEPT !.content.segments = w.segments]]
         IN  Walked(WalkSegments(rules, message.content.segments))
    ELSE [exc |-> "none", message |-> message, mutated |-> FALSE]

\* lines 280-303: one record of the context list
WalkMessage(rules, message) ==
    IF ~message.dict \/ message.role # "user"
    THEN [exc |-> "none", message |-> message, mutated |-> FALSE]
    ELSE IF message.content.kind = "str"
    THEN LET Walked(r) ==
               [exc |-> r.exc, mutated |-> r.exc = "none" /\ r.text # message.content.text,
                message |-> IF r.exc = "none"
                            THEN [message EXCEPT !.content.text = r.text] ELSE message]
         IN  Walked(run_pipeline(rules, message.content.text, "user_input"))
    ELSE IF message.content.kind = "list"
    THEN LET Walked(w) ==
               [exc |-> w.exc, mutated |-> w.mutated,
                message |-> [message EXCEPT !.content.segments = w.segments]]
         IN  Walked(WalkSegments(rules, message.content.segments))
    ELSE [exc |-> "none", message |-> message, mutated |-> FALSE]

\* lines 279-303: the loop over the context list
RECURSIVE WalkMessages(_, _)
WalkMessages(rules, messages) ==
    IF messages = <<>> THEN [exc |-> "none", items |-> <<>>, mutated |-> FALSE]
    ELSE LET Walked(m) ==
               IF m.exc # "none"
               THEN [exc |-> m.exc, items |-> <<m.message>> \o Tail(messages),
                     mutated |-> m.mutated]
               ELSE LET Rest(rest) ==
                          [exc |-> rest.exc, items |-> <<m.message>> \o rest.items,
                           mutated |-> m.mutated \/ rest.mutated]
                    IN  Rest(WalkMessages(rules, Tail(messages)))
         IN  Walked(WalkMessage(rules, Head(messages)))

\* _apply_to_context_messages
apply_to_context_messages(rules, contexts) ==
    IF ~contexts.isList \/ contexts.items = <<>>
    THEN [exc |-> "none", contexts |-> contexts, mutated |-> FALSE]
    ELSE LET Walked(w) ==
               [exc |-> w.exc, contexts |-> [contexts EXCEPT !.items = w.items],
                mutated |-> w.mutated]
         IN  Walked(WalkMessages(rules, contexts.items))

\* mutant: components that are not Plain are left out of the new list
RECURSIVE WalkChain_plain_only(_, _)
WalkChain_plain_only(rules, chain) ==
    IF chain = <<>> THEN [exc |-> "none", chain |-> <<>>, mutated |-> FALSE]
    ELSE LET component == Head(chain)
             Rest(r, rest) ==
               IF component.plain
               THEN [exc |-> "none",
                     chain |-> <<[component EXCEPT !.text = r.text]>> \o rest.chain,
                     mutated |-> (r.text # component.text) \/ rest.mutated]
               ELSE rest
         IN  Rest(run_pipeline(rules, component.text, "ai_output"),
                  WalkChain_plain_only(rules, Tail(chain)))

\* lines 245-255: the new component list and whether a Plain text changed
RECURSIVE WalkChain(_, _)
WalkChain(rules, chain) ==
    IF chain = <<>> THEN [exc |-> "none", chain |-> <<>>, mutated |-> FALSE]
    ELSE LET component == Head(chain)
             Walked(r) ==
               IF r.exc # "none"
               THEN [exc |-> r.exc, chain |-> chain, mutated |-> FALSE]
               ELSE LET Rest(rest) ==
                          [exc |-> rest.exc,
                           chain |-> <<[component EXCEPT !.text = r.text]>> \o rest.chain,
                           mutated |-> (r.text # component.text) \/ rest.mutated]
                    IN  Rest(WalkChain(rules, Tail(chain)))
         IN  Walked(IF component.plain
                    THEN run_pipeline(rules, component.text, "ai_output")
                    ELSE [exc |-> "none", text |-> component.text])

\* MessageChain.get_plain_text: the texts of the Plain components
RECURSIVE get_plain_text(_)
get_plain_text(chain) ==
    IF chain = <<>> THEN <<>>
    ELSE (IF Head(chain).plain THEN Head(chain).text ELSE <<>>) \o get_plain_text(Tail(chain))

\* _apply_to_result_chain
apply_to_result_chain(rules, response) ==
    IF ~response.result_chain.exists
    THEN [exc |-> "none", response |-> response, mutated |-> FALSE, walked |-> FALSE]
    ELSE LET Walked(w) ==
               IF w.exc # "none"
               THEN [exc |-> w.exc, response |-> response, mutated |-> FALSE,
                     walked |-> TRUE]
               ELSE IF w.mutated
               THEN [exc |-> "none", mutated |-> TRUE, walked |-> TRUE,
                     response |-> [result_chain |-> [exists |-> TRUE, chain |-> w.chain],
                                   completion_text |-> get_plain_text(w.chain)]]
               ELSE [exc |-> "none", response |-> response, mutated |-> FALSE,
                     walked |-> TRUE]
         IN  Walked(WalkChain(rules, response.result_chain.chain))

\* _apply_to_completion_text
apply_to_completion_text(rules, response) ==
    LET Piped(r) ==
          IF r.exc # "none" THEN [exc |-> r.exc, response |-> response, mutated |-> FALSE]
          ELSE IF r.text = response.completion_text
          THEN [exc |-> "none", response |-> response, mutated |-> FALSE]
          ELSE [exc |-> "none", mutated |-> TRUE,
                response |-> [response EXCEPT !.completion_text = r.text]]
    IN  Piped(run_pipeline(rules, response.completion_text, "ai_output"))

NoRefresh == [ran |-> FALSE, exc |-> "none", swapped |-> FALSE, sig_equal |-> FALSE,
              compiles |-> 0, logs |-> 0]

Ran(did) == [ran |-> TRUE, exc |-> did.exc, swapped |-> did.swapped,
             sig_equal |-> did.sig_equal, compiles |-> did.compiles, logs |-> did.logs]

\* lines 196-213 of on_llm_request, after the refresh e
RequestPipeline(e, request) ==
    LET rules == e.cache.compiled_rules
        AfterPrompt(p) ==
          IF p.exc # "none"
          THEN [cache |-> e.cache, did |-> Ran(e.did), exc |-> p.exc,
                request |-> request, piped |-> TRUE, updated |-> FALSE]
          ELSE LET AfterContexts(c) ==
                     [cache |-> e.cache, did |-> Ran(e.did), exc |-> c.exc,
                      request |-> [request EXCEPT !.prompt.text = p.text,
                                                  !.contexts = c.contexts],
                      piped |-> TRUE,
                      updated |-> (p.text # request.prompt.text) \/ c.mutated]
               IN  AfterContexts(apply_to_context_messages(rules, request.contexts))
    IN  AfterPrompt(IF request.prompt.isStr /\ request.prompt.text # <<>>
                    THEN run_pipeline(rules, request.prompt.text, "user_input")
                    ELSE [exc |-> "none", text |-> request.prompt.text])

\* mutant: the pipeline runs over the snapshot as it was before the refresh
on_llm_request_stale_snapshot(cfg, cur, request) ==
    IF ~is_enabled(cfg)
    THEN [cache |-> cur, did |-> NoRefresh, exc |-> "none", request |-> request,
          piped |-> FALSE, updated |-> FALSE]
    ELSE LET AfterRefresh(e) ==
               IF e.did.exc # "none" \/ ~cur.has_user
               THEN [cache |-> e.cache, did |-> Ran(e.did), exc |-> e.did.exc,
                     request |-> request, piped |-> FALSE, updated |-> FALSE]
               ELSE LET Applied(r) == [r EXCEPT !.cache = e.cache]
                    IN  Applied(RequestPipeline([cache |-> cur, did |-> e.did], request))
         IN  AfterRefresh(ensure_rules(cfg, cur))

\* on_llm_request: the cache and the request after the hook, the exception it
\* raised ("none" when it returned), and how far it got
on_llm_request(cfg, cur, request) ==
    IF ~is_enabled(cfg)
    THEN [cache |-> cur, did |-> NoRefresh, exc |-> "none", request |-> request,
          piped |-> FALSE, updated |-> FALSE]
    ELSE LET AfterRefresh(e) ==
               IF e.did.exc # "none" \/ ~e.cache.has_user
               THEN [cache |-> e.cache, did |-> Ran(e.did), exc |-> e.did.exc,
                     request |-> request, piped |-> FALSE, updated |-> FALSE]
               ELSE RequestPipeline(e, request)
         IN  AfterRefresh(ensure_rules(cfg, cur))

\* mutant: the flat text is piped whether or not the chain changed
ResponsePipeline_both(e, response) ==
    LET rules == e.cache.compiled_rules
        AfterChain(ch) ==
          LET AfterText(tx) ==
                [cache |-> e.cache, did |-> Ran(e.did), exc |-> tx.exc,
                 response |-> tx.response, piped |-> TRUE,
                 chain_changed |-> ch.mutated, fallback |-> TRUE,
                 text_changed |-> tx.mutated]
          IN  AfterText(apply_to_completion_text(rules, ch.response))
    IN  AfterChain(apply_to_result_chain(rules, response))

\* lines 227-234 of on_llm_response, after the refresh e
ResponsePipeline(e, response) ==
    LET rules == e.cache.compiled_rules
        AfterChain(ch) ==
          IF ch.exc # "none"
          THEN [cache |-> e.cache, did |-> Ran(e.did), exc |-> ch.exc,
                response |-> ch.response, piped |-> TRUE,
                chain_changed |-> FALSE, fallback |-> FALSE, text_changed |-> FALSE]
          ELSE IF ch.mutated
          THEN [cache |-> e.cache, did |-> Ran(e.did), exc |-> "none",
                response |-> ch.response, piped |-> TRUE,
                chain_changed |-> TRUE, fallback |-> FALSE, text_changed |-> FALSE]
          ELSE LET AfterText(tx) ==
                     [cache |-> e.cache, did |-> Ran(e.did), exc |-> tx.exc,
                      response |-> tx.response, piped |-> TRUE,
                      chain_changed |-> FALSE, fallback |-> TRUE,
                      text_changed |-> tx.mutated]
               IN  AfterText(apply_to_completion_text(rules, ch.response))
    IN  AfterChain(apply_to_result_chain(rules, response))

\* on_llm_response: as on_llm_request, with the two paths it took
on_llm_response(cfg, cur, response) ==
    IF ~is_enabled(cfg)
    THEN [cache |-> cur, did |-> NoRefresh, exc |-> "none", response |-> response,
          piped |-> FALSE, chain_changed |-> FALSE, fallback |-> FALSE,
          text_changed |-> FALSE]
    ELSE LET AfterRefresh(e) ==
               IF e.did.exc # "none" \/ ~e.cache.has_ai
               THEN [cache |-> e.cache, did |-> Ran(e.did), exc |-> e.did.exc,
                     response |-> response, piped |-> FALSE, chain_changed |-> FALSE,
                     fallback |-> FALSE, text_changed |-> FALSE]
               ELSE ResponsePipeline(e, response)
         IN  AfterRefresh(ensure_rules(cfg, cur))

----------------------------------------------------------------------------
(* The environment: configurations the operator can store, and the requests *)
(* and responses the framework hands to the hooks                           *)

NoFlags == [form |-> "missing", toks |-> <<>>]

Entry(name, scope, pattern, replacement, order, flags, enabled) ==
    [dict |-> TRUE, name |-> name, scope |-> scope, pattern |-> pattern,
     replacement |-> replacement, order |-> order, flags |-> flags, enabled |-> enabled]

\* a well-formed entry that leaves name, flags and enabled to their defaults
Rule(scope, pattern, replacement, order) ==
    Entry(Missing, scope, pattern, replacement, order, NoFlags, Missing)

\* an entry of the raw list that is not a dict
NotDict ==
    [dict |-> FALSE, name |-> Missing, scope |-> Missing, pattern |-> Missing,
     replacement |-> Missing, order |-> Missing, flags |-> NoFlags, enabled |-> Missing]

\* all lists of at most n entries, no entry twice
RECURSIVE Lists(_, _)
Lists(entries, n) ==
    IF n = 0 THEN {<<>>}
    ELSE LET shorter == Lists(entries, n - 1)
         IN  shorter \cup UNION {{Append(l, e) : e \in {x \in entries :
                                                  \A i \in 1..Len(l) : l[i] # x}} :
                                  l \in shorter}

NoJson == [kind |-> "missing", items |-> <<>>]

\* all texts of at most n characters a and b
RECURSIVE TextsUpTo(_)
TextsUpTo(n) ==
    IF n = 0 THEN {<<>>}
    ELSE LET shorter == TextsUpTo(n - 1)
         IN  shorter \cup {Append(t, c) : t \in shorter, c \in {"a", "b"}}

Texts == TextsUpTo(MaxLen) \cup {<<"A">>}

\* the texts of exactly MaxLen characters
FullTexts == {t \in TextsUpTo(MaxLen) : Len(t) = MaxLen}

StrContent(t) == [kind |-> "str", text |-> t, segments |-> <<>>]

Image == [plain |-> FALSE, text |-> <<"image">>]

\* a prompt and no history
PromptRequest(t) ==
    [prompt |-> [isStr |-> TRUE, text |-> t], contexts |-> [isList |-> FALSE, items |-> <<>>]]

\* no prompt and a history of one user message, one assistant message, one
\* user message of content blocks and one item that is not a dict
HistoryRequest(t) ==
    [prompt |-> [isStr |-> FALSE, text |-> <<>>],
     contexts |-> [isList |-> TRUE, items |->
        << [dict |-> TRUE, role |-> "user", content |-> StrContent(t)],
           [dict |-> TRUE, role |-> "assistant", content |-> StrContent(t)],
           [dict |-> TRUE, role |-> "user", content |->
              [kind |-> "list", text |-> <<>>, segments |->
                << [dict |-> TRUE, type |-> "text", text |-> t],
                   [dict |-> TRUE, type |-> "image_url", text |-> t],
                   [dict |-> FALSE, type |-> "text", text |-> t] >>]],
           [dict |-> FALSE, role |-> "user", content |-> StrContent(t)] >>]]

\* a response without result chain
FlatResponse(t) ==
    [result_chain |-> [exists |-> FALSE, chain |-> <<>>], completion_text |-> t]

\* a response whose result chain is a Plain, an image and a second Plain
ChainResponse(t, u) ==
    [result_chain |-> [exists |-> TRUE,
                       chain |-> <<[plain |-> TRUE, text |-> t], Image,
                                   [plain |-> TRUE, text |-> u]>>],
     completion_text |-> t \o u]

\* a response whose result chain holds no Plain, with a flat text beside it
ImageResponse(t) ==
    [result_chain |-> [exists |-> TRUE, chain |-> <<Image>>], completion_text |-> t]

NoCall == [hook |-> "none", exc |-> "none", piped |-> FALSE,
           request_in |-> [prompt |-> [isStr |-> FALSE, text |-> <<>>],
                           contexts |-> [isList |-> FALSE, items |-> <<>>]],
           request |-> [prompt |-> [isStr |-> FALSE, text |-> <<>>],
                        contexts |-> [isList |-> FALSE, items |-> <<>>]],
           response_in |-> [result_chain |-> [exists |-> FALSE, chain |-> <<>>],
                            completion_text |-> <<>>],
           response |-> [result_chain |-> [exists |-> FALSE, chain |-> <<>>],
                         completion_text |-> <<>>],
           chain_changed |-> FALSE, fallback |-> FALSE, text_changed |-> FALSE,
           refreshed |-> FALSE]

Cache == [compiled_rules |-> compiled_rules, signature |-> signature,
          has_user |-> has_user_scoped_rules, has_ai |-> has_ai_scoped_rules]

SetCache(c) ==
    /\ compiled_rules' = c.compiled_rules
    /\ signature' = c.signature
    /\ has_user_scoped_rules' = c.has_user
    /\ has_ai_scoped_rules' = c.has_ai

----------------------------------------------------------------------------
(* The state machine *)

\* __init__ (lines 56-62) with a configuration of the set
InitWith(configs) ==
    /\ config \in configs
    /\ compiled_rules = <<>>
    /\ signature = <<>>
    /\ has_user_scoped_rules = FALSE
    /\ has_ai_scoped_rules = FALSE
    /\ phase = "constructed"
    /\ refresh = NoRefresh
    /\ call = NoCall
    /\ pending = {}

\* the operator stores another configuration
SetConfig(configs) ==
    /\ \E c \in configs : c # config /\ config' = c
    /\ UNCHANGED <<compiled_rules, signature, has_user_scoped_rules,
                   has_ai_scoped_rules, phase, refresh, call, pending>>

\* initialize(): the framework calls it once, after construction, and
\* registers the hooks of a plugin whose initialize() returned
Initialize ==
    /\ phase = "constructed"
    /\ \E e \in {ensure_rules(config, Cache)} :
          /\ SetCache(e.cache)
          /\ refresh' = Ran(e.did)
          /\ phase' = IF e.did.exc = "none" THEN "ready" ELSE "failed"
    /\ UNCHANGED <<config, call, pending>>

\* the framework invokes on_llm_request
LlmRequest(requests) ==
    /\ phase = "ready"
    /\ \E request \in requests :
          \E h \in {on_llm_request(config, Cache, request)} :
              /\ SetCache(h.cache)
              /\ refresh' = IF h.did.ran THEN h.did ELSE refresh
              /\ call' = [NoCall EXCEPT !.hook = "request", !.exc = h.exc,
                                        !.piped = h.piped, !.request_in = request,
                                        !.request = h.request, !.refreshed = h.did.ran]
    /\ UNCHANGED <<config, phase, pending>>

\* the framework invokes on_llm_response
LlmResponse(responses) ==
    /\ phase = "ready"
    /\ \E response \in responses :
          \E h \in {on_llm_response(config, Cache, response)} :
              /\ SetCache(h.cache)
              /\ refresh' = IF h.did.ran THEN h.did ELSE refresh
              /\ call' = [NoCall EXCEPT !.hook = "response", !.exc = h.exc,
                                        !.piped = h.piped, !.response_in = response,
                                        !.response = h.response,
                                        !.chain_changed = h.chain_changed,
                                        !.fallback = h.fallback,
                                        !.text_changed = h.text_changed,
                                        !.refreshed = h.did.ran]
    /\ UNCHANGED <<config, phase, pending>>

\* A coroutine the framework has created by calling a hook and has not yet
\* run: [hook, request, response].  Neither hook contains an await, so the
\* event loop runs a coroutine from its first line to its return in one step.
RequestTask(request) ==
    [hook |-> "request", request |-> request, response |-> NoCall.response_in]

ResponseTask(response) ==
    [hook |-> "response", request |-> NoCall.request_in, response |-> response]

\* the framework calls on_llm_request(event, request): the coroutine exists
InvokeRequest(requests) ==
    /\ phase = "ready"
    /\ \E request \in requests :
          /\ RequestTask(request) \notin pending
          /\ pending' = pending \cup {RequestTask(request)}
    /\ UNCHANGED <<config, compiled_rules, signature, has_user_scoped_rules,
                   has_ai_scoped_rules, phase, refresh, call>>

\* the framework calls on_llm_response(event, response): the coroutine exists
InvokeResponse(responses) ==
    /\ phase = "ready"
    /\ \E response \in responses :
          /\ ResponseTask(response) \notin pending
          /\ pending' = pending \cup {ResponseTask(response)}
    /\ UNCHANGED <<config, compiled_rules, signature, has_user_scoped_rules,
                   has_ai_scoped_rules, phase, refresh, call>>

\* the event loop runs a pending on_llm_request coroutine (lines 189-213)
RunRequest ==
    /\ \E task \in pending :
          /\ task.hook = "request"
          /\ pending' = pending \ {task}
          /\ \E h \in {on_llm_request(config, Cache, task.request)} :
                /\ SetCache(h.cache)
                /\ refresh' = IF h.did.ran THEN h.did ELSE refresh
                /\ call' = [NoCall EXCEPT !.hook = "request", !.exc = h.exc,
                                          !.piped = h.piped, !.request_in = task.request,
                                          !.request = h.request, !.refreshed = h.did.ran]
    /\ UNCHANGED <<config, phase>>

\* the event loop runs a pending on_llm_response coroutine (lines 220-234)
RunResponse ==
    /\ \E task \in pending :
          /\ task.hook = "response"
          /\ pending' = pending \ {task}
          /\ \E h \in {on_llm_response(config, Cache, task.response)} :
                /\ SetCache(h.cache)
                /\ refresh' = IF h.did.ran THEN h.did ELSE refresh
                /\ call' = [NoCall EXCEPT !.hook = "response", !.exc = h.exc,
                                          !.piped = h.piped, !.response_in = task.response,
                                          !.response = h.response,
                                          !.chain_changed = h.chain_changed,
                                          !.fallback = h.fallback,
                                          !.text_changed = h.text_changed,
                                          !.refreshed = h.did.ran]
    /\ UNCHANGED <<config, phase>>

----------------------------------------------------------------------------
(* Spec: configurations whose rules differ in replacement and order *)

PlainEntries ==
    { Rule("both", "a", "b", "<int 7>"),
      Rule("both", "a", "", "<int 7>"),
      Rule("both", "b", "a", Missing) }

PlainConfigs ==
    {[enabled |-> Missing, rules_json |-> NoJson, rules |-> [kind |-> "list", items |-> l]] :
        l \in Lists(PlainEntries, MaxRules)}
    \cup
    {[enabled |-> "<False>", rules_json |-> NoJson, rules |-> [kind |-> "list", items |-> l]] :
        l \in Lists(PlainEntries, 1)}

PlainRequests == {PromptRequest(t) : t \in FullTexts}

PlainResponses == {FlatResponse(<<"a", "b">>), FlatResponse(<<"A">>)}

Init == InitWith(PlainConfigs)

Next ==
    \/ SetConfig(PlainConfigs)
    \/ Initialize
    \/ LlmRequest(PlainRequests)
    \/ LlmResponse(PlainResponses)

Spec == Init /\ [][Next]_vars

----------------------------------------------------------------------------
(* SpecScope: one rule of each scope; requests with history, responses with *)
(* a result chain                                                           *)

ScopeEntries ==
    { Rule("user_input", "a", "b", Missing),
      Entry(Missing, "ai_output", "a", "", Missing,
            [form |-> "str", toks |-> <<"ignorecase">>], Missing),
      Rule("both", "b", "a", "<int 7>") }

ScopeConfigs ==
    {[enabled |-> Missing, rules_json |-> NoJson, rules |-> [kind |-> "list", items |-> l]] :
        l \in Lists(ScopeEntries, MaxRules)}
    \cup
    {[enabled |-> "<False>", rules_json |-> NoJson, rules |-> [kind |-> "list", items |-> l]] :
        l \in Lists(ScopeEntries, 1)}

ScopeRequests ==
    {PromptRequest(t) : t \in FullTexts} \cup {HistoryRequest(<<"a", "b">>)}

ScopeResponses ==
    {FlatResponse(<<"a", "b">>), ChainResponse(<<"a">>, <<"b">>),
     ChainResponse(<<"b">>, <<>>), ImageResponse(<<"A">>)}

InitScope == InitWith(ScopeConfigs)

NextScope ==
    \/ SetConfig(ScopeConfigs)
    \/ Initialize
    \/ LlmRequest(ScopeRequests)
    \/ LlmResponse(ScopeResponses)

SpecScope == InitScope /\ [][NextScope]_vars

----------------------------------------------------------------------------
(* SpecFault: configurations with defective entries *)

FaultEntries ==
    { Rule("ai_output", "a", "b", Missing),                         \* well-formed
      Rule("ai_output", "(", "b", Missing),                         \* unbalanced group
      Rule("ai_output", "", "b", Missing),                          \* empty pattern
      Entry(Missing, "ai_output", "b", "a", Missing,
            [form |-> "list", toks |-> <<" locale ">>], Missing),   \* flag LOCALE
      Rule("ai_output", "a", "b", "<float inf>"),                   \* order Infinity
      Rule("both", "b", "\\1", Missing),                            \* group 1 in the template
      NotDict }

FaultConfigs ==
    {[enabled |-> Missing, rules_json |-> NoJson, rules |-> [kind |-> "list", items |-> l]] :
        l \in Lists(FaultEntries, MaxRules)}
    \cup
    {[enabled |-> "<False>", rules_json |-> NoJson,
      rules |-> [kind |-> "list", items |-> <<NotDict>>]]}

FaultRequests == {PromptRequest(<<"a", "b">>)}

FaultResponses == {FlatResponse(<<"a", "b">>), ChainResponse(<<"a">>, <<"b">>)}

InitFault == InitWith(FaultConfigs)

NextFault ==
    \/ SetConfig(FaultConfigs)
    \/ Initialize
    \/ LlmRequest(FaultRequests)
    \/ LlmResponse(FaultResponses)

SpecFault == InitFault /\ [][NextFault]_vars

----------------------------------------------------------------------------
(* SpecSource: configurations that differ in where the raw list comes from *)

SourceEntries ==
    { Rule("both", "a", "b", Missing),
      Rule("both", "a", "", Missing) }

SourceConfigs ==
    {[enabled |-> Missing, rules_json |-> rj, rules |-> r] :
        rj \in {[kind |-> k, items |-> <<>>] :
                    k \in {"missing", "blank", "garbage", "object", "notstr"}}
               \cup {[kind |-> "array", items |-> l] : l \in Lists(SourceEntries, MaxRules)},
        r \in {[kind |-> k, items |-> <<>>] : k \in {"missing", "notlist"}}
              \cup {[kind |-> "list", items |-> l] : l \in Lists(SourceEntries, 1)}}

SourceRequests == {PromptRequest(<<"a", "b">>)}

SourceResponses == {FlatResponse(<<"a", "b">>)}

InitSource == InitWith(SourceConfigs)

NextSource ==
    \/ SetConfig(SourceConfigs)
    \/ Initialize
    \/ LlmRequest(SourceRequests)
    \/ LlmResponse(SourceResponses)

SpecSource == InitSource /\ [][NextSource]_vars

----------------------------------------------------------------------------
(* SpecStale: configurations whose pattern is the number 0 or the text "0" *)

StaleEntries ==
    { Rule("both", "<int 0>", "b", Missing),        \* "pattern": 0
      Rule("both", "0", "b", Missing),              \* "pattern": "0"
      Rule("ai_output", "a", "0", Missing) }

StaleConfigs ==
    {[enabled |-> Missing, rules_json |-> NoJson, rules |-> [kind |-> "list", items |-> l]] :
        l \in Lists(StaleEntries, MaxRules)}
    \cup
    {[enabled |-> "<False>", rules_json |-> NoJson, rules |-> [kind |-> "list", items |-> l]] :
        l \in Lists(StaleEntries, 1)}

StaleRequests == {PromptRequest(<<"a", "0">>)}

StaleResponses == {FlatResponse(<<"a", "0">>)}

InitStale == InitWith(StaleConfigs)

NextStale ==
    \/ SetConfig(StaleConfigs)
    \/ Initialize
    \/ LlmRequest(StaleRequests)
    \/ LlmResponse(StaleResponses)

SpecStale == InitStale /\ [][NextStale]_vars

----------------------------------------------------------------------------
(* SpecDrop: configurations with one rule and the entries a refresh drops *)

DropEntries ==
    { Rule("both", "a", "b", Missing),                                  \* compiles
      Entry(Missing, "both", "a", "", Missing, NoFlags, "<False>"),     \* disabled
      Rule("both", "", "b", Missing),                                   \* empty pattern
      Rule("both", "(", "b", Missing),                                  \* unbalanced group
      NotDict }

DropConfigs ==
    {[enabled |-> Missing, rules_json |-> NoJson, rules |-> [kind |-> "list", items |-> l]] :
        l \in Lists(DropEntries, MaxRules)}
    \cup
    {[enabled |-> "<False>", rules_json |-> NoJson,
      rules |-> [kind |-> "list", items |-> <<Rule("both", "a", "b", Missing)>>]]}

DropRequests == {PromptRequest(<<"a", "b">>)}

DropResponses == {FlatResponse(<<"a", "b">>)}

InitDrop == InitWith(DropConfigs)

NextDrop ==
    \/ SetConfig(DropConfigs)
    \/ Initialize
    \/ LlmRequest(DropRequests)
    \/ LlmResponse(DropResponses)

SpecDrop == InitDrop /\ [][NextDrop]_vars

----------------------------------------------------------------------------
(* SpecNorm: rules whose scope is absent, not a string, unrecognized, or     *)
(* recognized only after trimming and lower-casing                           *)

NormEntries ==
    { Rule(Missing, "a", "b", Missing),             \* no "scope" key
      Rule("<int 7>", "a", "", Missing),            \* "scope": 7
      Rule("bogus", "b", "a", "<int 7>"),           \* "scope": "bogus"
      Rule(" Both ", "b", "", Missing) }            \* "scope": " Both "

NormConfigs ==
    {[enabled |-> Missing, rules_json |-> NoJson, rules |-> [kind |-> "list", items |-> l]] :
        l \in Lists(NormEntries, MaxRules)}
    \cup
    {[enabled |-> "<False>", rules_json |-> NoJson,
      rules |-> [kind |-> "list", items |-> <<Rule(" Both ", "b", "", Missing)>>]]}

NormRequests == {PromptRequest(<<"a", "b">>), HistoryRequest(<<"a", "b">>)}

NormResponses == {FlatResponse(<<"a", "b">>)}

InitNorm == InitWith(NormConfigs)

NextNorm ==
    \/ SetConfig(NormConfigs)
    \/ Initialize
    \/ LlmRequest(NormRequests)
    \/ LlmResponse(NormResponses)

SpecNorm == InitNorm /\ [][NextNorm]_vars

----------------------------------------------------------------------------
(* SpecAsync: hook coroutines created concurrently and run, one at a time,  *)
(* in any order, with configuration changes between them                    *)

AsyncEntries ==
    { Rule("user_input", "a", "b", Missing),
      Rule("ai_output", "a", "", Missing),
      Rule("both", "b", "a", "<int 7>") }

AsyncConfigs ==
    {[enabled |-> Missing, rules_json |-> NoJson, rules |-> [kind |-> "list", items |-> l]] :
        l \in Lists(AsyncEntries, MaxRules)}
    \cup
    {[enabled |-> "<False>", rules_json |-> NoJson,
      rules |-> [kind |-> "list", items |-> <<Rule("both", "b", "a", "<int 7>")>>]]}

AsyncRequests == {PromptRequest(<<"a", "b">>)}

AsyncResponses == {FlatResponse(<<"a", "b">>), ChainResponse(<<"a">>, <<"b">>)}

InitAsync == InitWith(AsyncConfigs)

NextAsync ==
    \/ SetConfig(AsyncConfigs)
    \/ Initialize
    \/ InvokeRequest(AsyncRequests)
    \/ InvokeResponse(AsyncResponses)
    \/ RunRequest
    \/ RunResponse

SpecAsync == InitAsync /\ [][NextAsync]_vars

----------------------------------------------------------------------------
(* Claims *)

\* re.compile, under the translated flags, of an enabled dict entry with a
\* pattern text
CompileOf(item) ==
    re_compile(Str(Get(item.pattern, "")),
               flags_to_value(normalize_flags(IF item.flags.form = "missing"
                                              THEN [form |-> "list", toks |-> <<>>]
                                              ELSE item.flags)).value)

Compiles(item) ==
    /\ item.dict
    /\ Truthy(Get(item.enabled, "<True>"))
    /\ Truthy(Get(item.pattern, ""))

CompileFails(item) == Compiles(item) /\ CompileOf(item).exc # "none"

Compilable(item) == Compiles(item) /\ CompileOf(item).exc = "none"

\* the rules of a sequence whose scope is not sc
WithoutScope(rules, sc) ==
    LET Keep(r) == r.scope # sc IN SelectSeq(rules, Keep)

\* whether the rule's pattern matches somewhere in the text
MatchesIn(rule, t) == \E i \in 1..Len(t) : Matches(rule.compiled, t[i])

\* C1: scope isolation of _run_pipeline.  For the stored snapshot and every
\* text: a rule with scope "both" substitutes in a user_input call and in an
\* ai_output call; a rule with scope "user_input" leaves the text of an
\* ai_output call as it is, and the result of the ai_output call is the one
\* the snapshot without its user_input rules gives; and the same with
\* user_input and ai_output exchanged.
C1_ScopeIsolation ==
    \A t \in Texts :
        /\ run_pipeline(compiled_rules, t, "ai_output")
             = run_pipeline(WithoutScope(compiled_rules, "user_input"), t, "ai_output")
        /\ run_pipeline(compiled_rules, t, "user_input")
             = run_pipeline(WithoutScope(compiled_rules, "ai_output"), t, "user_input")
        /\ \A i \in 1..Len(compiled_rules) :
              LET rule == compiled_rules[i]
                  subbed == re_sub(rule.compiled, rule.replacement, t)
              IN  /\ rule.scope = "both" =>
                        /\ run_pipeline(<<rule>>, t, "user_input") = subbed
                        /\ run_pipeline(<<rule>>, t, "ai_output") = subbed
                  /\ rule.scope = "user_input" =>
                        /\ run_pipeline(<<rule>>, t, "ai_output").text = t
                        /\ run_pipeline(<<rule>>, t, "user_input") = subbed
                  /\ rule.scope = "ai_output" =>
                        /\ run_pipeline(<<rule>>, t, "user_input").text = t
                        /\ run_pipeline(<<rule>>, t, "ai_output") = subbed

\* C1 witness: the response hook ran the pipeline over a flat text that a
\* stored user_input rule matches, beside a stored rule of scope both
C1_Witness ==
    /\ call.hook = "response" /\ call.piped /\ call.fallback
    /\ \E i \in 1..Len(compiled_rules) :
          /\ compiled_rules[i].scope = "user_input"
          /\ MatchesIn(compiled_rules[i], call.response_in.completion_text)
    /\ \E i \in 1..Len(compiled_rules) : compiled_rules[i].scope = "both"

\* C2: the stored rule sequence is sorted ascending by (order, original
\* position in the raw list): of two stored rules the earlier one has the
\* smaller order, or the same order and the smaller origin_index.
C2_SortedByOrderThenPosition ==
    \A i, j \in 1..Len(compiled_rules) :
        i < j =>
            \/ compiled_rules[i].order < compiled_rules[j].order
            \/ /\ compiled_rules[i].order = compiled_rules[j].order
               /\ compiled_rules[i].origin_index < compiled_rules[j].origin_index

\* C2 witness: a hook ran the pipeline over a snapshot whose first rule was
\* declared after its second rule
C2_Witness ==
    /\ call.hook # "none" /\ call.piped
    /\ Len(compiled_rules) >= 2
    /\ compiled_rules[1].origin_index > compiled_rules[2].origin_index
    /\ compiled_rules[1].order < compiled_rules[2].order

----------------------------------------------------------------------------
(* What compiling a configuration from scratch gives *)

EmptyCache == [compiled_rules |-> <<>>, signature |-> <<>>,
               has_user |-> FALSE, has_ai |-> FALSE]

FreshCache(cfg) == ensure_rules(cfg, EmptyCache).cache

SigOf(cfg) ==
    CompileLoop(RawRules(cfg), 0,
        [exc |-> "none", signature |-> <<>>, candidates |-> <<>>,
         compiles |-> 0, logs |-> 0]).signature

\* the replacement text of a raw entry
ReplacementOf(item) ==
    IF Get(item.replacement, "") = None THEN "" ELSE Str(Get(item.replacement, ""))

\* the raw lists of c0 and c1 are equal but for the replacement text of the
\* dict entry at position i, and the rest of the two configurations is equal
DiffersInReplacementAt(c0, c1, i) ==
    LET r0 == RawRules(c0)
        r1 == RawRules(c1)
    IN  /\ c0.enabled = c1.enabled
        /\ Len(r0) = Len(r1)
        /\ i \in 1..Len(r0)
        /\ \A j \in 1..Len(r0) : j # i => r0[j] = r1[j]
        /\ r0[i].dict /\ r1[i].dict
        /\ [r0[i] EXCEPT !.replacement = ""] = [r1[i] EXCEPT !.replacement = ""]
        /\ ReplacementOf(r0[i]) # ReplacementOf(r1[i])

\* whether the step runs _ensure_rules: initialize(), or a hook while the
\* switch is on
StepRefreshes ==
    /\ config' = config
    /\ phase = "constructed" \/ Truthy(Get(config.enabled, "<True>"))

\* C3: once the configuration differs from the one the cache was built from
\* only in the replacement text of one rule, the next refresh finds the
\* signature changed and installs the snapshot of the new configuration, in
\* which that rule carries the new replacement text, and the hook that made
\* the refresh returns the text the new snapshot gives.
C3_ReplacementChangeTakesEffect ==
    [][ StepRefreshes =>
          \A i \in 1..MaxRules : \A c0 \in PlainConfigs :
             (DiffersInReplacementAt(c0, config, i) /\ signature = SigOf(c0)) =>
                /\ refresh'.ran /\ refresh'.swapped
                /\ signature' # signature
                /\ signature' = SigOf(config)
                /\ compiled_rules' = FreshCache(config).compiled_rules
                /\ \A k \in 1..Len(compiled_rules') :
                      compiled_rules'[k].origin_index = i - 1 =>
                         compiled_rules'[k].replacement = ReplacementOf(RawRules(config)[i])
                /\ call'.hook = "request" =>
                      call'.request
                        = on_llm_request(config, FreshCache(config), call'.request_in).request
                /\ call'.hook = "response" =>
                      call'.response
                        = on_llm_response(config, FreshCache(config), call'.response_in).response
      ]_vars

\* C3 witness: the last request was rewritten with the old replacement text,
\* the configuration has since changed in that replacement text only, the
\* switch is on, and the new text gives another result
C3_Witness ==
    /\ phase = "ready" /\ Truthy(Get(config.enabled, "<True>"))
    /\ call.hook = "request" /\ call.piped
    /\ \E i \in 1..MaxRules : \E c0 \in PlainConfigs :
          /\ DiffersInReplacementAt(c0, config, i)
          /\ signature = SigOf(c0)
          /\ call.request = on_llm_request(c0, FreshCache(c0), call.request_in).request
          /\ call.request # on_llm_request(config, FreshCache(config), call.request_in).request

\* the second of two request hooks over the same request
SecondRequest(cfg, h1, request) ==
    LET Same(h2) == /\ h2.exc = h1.exc
                    /\ h2.request = h1.request
                    /\ h2.cache = h1.cache
                    /\ ~h2.did.swapped
    IN  Same(on_llm_request(cfg, h1.cache, request))

SecondResponse(cfg, h1, response) ==
    LET Same(h2) == /\ h2.exc = h1.exc
                    /\ h2.response = h1.response
                    /\ h2.cache = h1.cache
                    /\ ~h2.did.swapped
    IN  Same(on_llm_response(cfg, h1.cache, response))

\* C5: from every reachable state, two consecutive hook invocations over the
\* same text with no configuration change between them give the same text,
\* and the refresh of the second one replaces nothing: compiled rules,
\* signature and the two has-scope booleans stay as the first left them.
C5_RepeatedInvocationIdentical ==
    /\ \A request \in PlainRequests :
          SecondRequest(config, on_llm_request(config, Cache, request), request)
    /\ \A response \in PlainResponses :
          SecondResponse(config, on_llm_response(config, Cache, response), response)

\* C5 witness: the refresh of the last hook found the signature of a
\* non-empty snapshot unchanged, and the hook rewrote its text
C5_Witness ==
    /\ call.hook = "request" /\ call.piped /\ call.request # call.request_in
    /\ refresh.ran /\ refresh.sig_equal
    /\ compiled_rules # <<>>
    /\ signature = SigOf(config)

\* no stored rule has a scope that target_scope selects
NoRuleFor(rules, target_scope) ==
    \A i \in 1..Len(rules) : rules[i].scope \notin {target_scope, "both"}

\* C6: a hook invoked while the `enabled` switch is off, or whose snapshot
\* holds no rule for its scope (user_input for on_llm_request, ai_output for
\* on_llm_response), leaves the prompt and the contexts, respectively the
\* result chain and the completion text, as they were.
C6_PassThrough ==
    [][ (config' = config /\ phase = "ready") =>
          /\ (/\ call'.hook = "request"
              /\ \/ ~Truthy(Get(config.enabled, "<True>"))
                 \/ NoRuleFor(compiled_rules', "user_input"))
                => call'.request = call'.request_in
          /\ (/\ call'.hook = "response"
              /\ \/ ~Truthy(Get(config.enabled, "<True>"))
                 \/ NoRuleFor(compiled_rules', "ai_output"))
                => call'.response = call'.response_in
      ]_vars

\* C6 witness: a request whose prompt a stored ai_output rule matches went
\* through unchanged, the snapshot holding no rule for user_input
C6_Witness ==
    /\ call.hook = "request" /\ call.refreshed
    /\ call.request = call.request_in
    /\ call.request_in.prompt.isStr
    /\ compiled_rules # <<>>
    /\ NoRuleFor(compiled_rules, "user_input")
    /\ \E i \in 1..Len(compiled_rules) :
          MatchesIn(compiled_rules[i], call.request_in.prompt.text)

\* a Plain component of the chain has another text than before
PlainSegmentChanged(before, after) ==
    \E i \in 1..Len(before) :
        before[i].plain /\ (i > Len(after) \/ after[i].text # before[i].text)

\* C9: when on_llm_response runs the pipeline, the flat completion text is
\* piped exactly when there is no result chain or no Plain component of the
\* chain changed; a changed chain leaves the flat text to the chain (it is
\* the chain's plain text), and the fallback leaves the chain as it was.
C9_ChainFirstThenFallback ==
    (call.hook = "response" /\ call.piped) =>
        LET before == call.response_in.result_chain
            after == call.response.result_chain
            changed == before.exists /\ PlainSegmentChanged(before.chain, after.chain)
        IN  /\ call.fallback <=> ~changed
            /\ call.chain_changed <=> changed
            /\ ~(call.chain_changed /\ call.text_changed)
            /\ changed => call.response.completion_text = get_plain_text(after.chain)
            /\ call.fallback =>
                  /\ after = before
                  /\ call.response.completion_text
                       = run_pipeline(compiled_rules, call.response_in.completion_text,
                                      "ai_output").text

\* C9 witness: the chain holds no Plain that changed, and the fallback
\* rewrote the flat text
C9_Witness ==
    /\ call.hook = "response" /\ call.piped
    /\ call.response_in.result_chain.exists
    /\ call.response.result_chain = call.response_in.result_chain
    /\ call.fallback /\ call.text_changed
    /\ call.response.completion_text # call.response_in.completion_text

\* C12: _apply_to_result_chain keeps the number and the order of the
\* components; a component that is not a Plain stays, at its position, the
\* component it was; a Plain carries the text the ai_output pipeline gives for
\* its old text; and the walker reports a mutation exactly when the pipeline
\* gives, for at least one Plain, another text than it had.
C12_ChainWalkerFrame ==
    (call.hook = "response" /\ call.piped) =>
        LET before == call.response_in.result_chain
            after == call.response.result_chain
            Piped(i) == run_pipeline(compiled_rules, before.chain[i].text, "ai_output").text
            Differs == /\ before.exists
                       /\ \E i \in 1..Len(before.chain) :
                             before.chain[i].plain /\ Piped(i) # before.chain[i].text
        IN  /\ after.exists = before.exists
            /\ Len(after.chain) = Len(before.chain)
            /\ \A i \in 1..Len(before.chain) :
                  IF before.chain[i].plain
                  THEN after.chain[i].plain /\ after.chain[i].text = Piped(i)
                  ELSE after.chain[i] = before.chain[i]
            /\ call.chain_changed <=> Differs
            /\ apply_to_result_chain(compiled_rules, call.response_in).mutated <=> Differs
            /\ ~Differs => after = before

\* C12 witness: the walker replaced a chain in which one Plain changed, one
\* Plain kept its text and a component that is not a Plain stands between them
C12_Witness ==
    /\ call.hook = "response" /\ call.piped /\ call.chain_changed
    /\ \E i, j, k \in 1..Len(call.response_in.result_chain.chain) :
          LET before == call.response_in.result_chain.chain
              after == call.response.result_chain.chain
          IN  /\ i < j /\ j < k
              /\ before[i].plain /\ after[i].text # before[i].text
              /\ ~before[j].plain /\ after[j] = before[j]
              /\ before[k].plain /\ after[k].text = before[k].text /\ before[k].text # <<>>

\* the text the user_input pipeline of the snapshot gives
PipedInput(t) == run_pipeline(compiled_rules, t, "user_input").text

\* the walker may have rewritten the text of block b into block a
SegmentFrame(b, a) ==
    IF b.dict /\ b.type = "text" THEN a = [b EXCEPT !.text = PipedInput(b.text)]
    ELSE a = b

\* the walker may have rewritten the texts of record b into record a
MessageFrame(b, a) ==
    IF ~b.dict \/ b.role # "user" THEN a = b
    ELSE CASE b.content.kind = "str" ->
                a = [b EXCEPT !.content.text = PipedInput(b.content.text)]
           [] b.content.kind = "list" ->
                /\ [a EXCEPT !.content.segments = <<>>] = [b EXCEPT !.content.segments = <<>>]
                /\ Len(a.content.segments) = Len(b.content.segments)
                /\ \A i \in 1..Len(b.content.segments) :
                      SegmentFrame(b.content.segments[i], a.content.segments[i])
           [] OTHER -> a = b

\* the pipeline gives another text for a text the walker visits in record b
MessageTextChanges(b) ==
    /\ b.dict /\ b.role = "user"
    /\ \/ b.content.kind = "str" /\ PipedInput(b.content.text) # b.content.text
       \/ /\ b.content.kind = "list"
          /\ \E i \in 1..Len(b.content.segments) :
                /\ b.content.segments[i].dict /\ b.content.segments[i].type = "text"
                /\ PipedInput(b.content.segments[i].text) # b.content.segments[i].text

\* C13: _apply_to_context_messages rewrites only the flat string content of a
\* record whose role is "user" and the text of the blocks of type "text" of
\* such a record, to the text the user_input pipeline gives; records of any
\* other role, items that are not records and blocks of any other type stay
\* as they were; and the walker reports a change exactly when the pipeline
\* gives another text for one of the texts it visits.
C13_ContextWalkerFrame ==
    (call.hook = "request" /\ call.piped) =>
        LET before == call.request_in.contexts
            after == call.request.contexts
            Reported == apply_to_context_messages(compiled_rules, before).mutated
        IN  /\ after.isList = before.isList
            /\ Len(after.items) = Len(before.items)
            /\ \A i \in 1..Len(before.items) : MessageFrame(before.items[i], after.items[i])
            /\ Reported <=> \E i \in 1..Len(before.items) : MessageTextChanges(before.items[i])
            /\ Reported <=> after # before

\* C13 witness: the walker rewrote the content of a user record and left, with
\* the same text in them, an assistant record, an item that is not a record, a
\* block of another type and a block that is not a record as they were
C13_Witness ==
    /\ call.hook = "request" /\ call.piped
    /\ call.request_in.contexts.isList
    /\ LET before == call.request_in.contexts.items
           after == call.request.contexts.items
       IN  /\ \E i \in 1..Len(before) :
                 /\ before[i].dict /\ before[i].role = "user"
                 /\ before[i].content.kind = "str"
                 /\ after[i].content.text # before[i].content.text
                 /\ \E j \in 1..Len(before) :
                       /\ before[j].dict /\ before[j].role # "user"
                       /\ before[j].content.text = before[i].content.text
                       /\ after[j] = before[j]
                 /\ \E j \in 1..Len(before) :
                       /\ ~before[j].dict
                       /\ before[j].content.text = before[i].content.text
                       /\ after[j] = before[j]
           /\ \E i \in 1..Len(before) :
                 /\ before[i].dict /\ before[i].role = "user"
                 /\ before[i].content.kind = "list"
                 /\ \E k, m, n \in 1..Len(before[i].content.segments) :
                       LET segs == before[i].content.segments
                           out == after[i].content.segments
                       IN  /\ segs[k].dict /\ segs[k].type = "text"
                           /\ out[k].text # segs[k].text
                           /\ segs[m].dict /\ segs[m].type # "text" /\ out[m] = segs[m]
                           /\ ~segs[n].dict /\ out[n] = segs[n]

\* the left fold over the first k rules: the global substitution of rule k,
\* if its scope matches, in what the first k - 1 rules made of the text
RECURSIVE FoldRules(_, _, _, _)
FoldRules(rules, k, text, target_scope) ==
    IF k = 0 THEN text
    ELSE LET Sub(prev) ==
               IF rules[k].scope \in {target_scope, "both"}
               THEN SubChars(rules[k].compiled, TemplateChars(rules[k].replacement), prev)
               ELSE prev
         IN  Sub(FoldRules(rules, k - 1, text, target_scope))

\* C14: for the stored snapshot, every text and both target scopes,
\* _run_pipeline returns the left fold, in stored order, of the global
\* substitutions of the rules whose scope matches, each one substituting in
\* the output of the matching rule before it; with no matching rule it
\* returns the text it was given; and the texts the hooks write are that fold.
C14_PipelineIsLeftFold ==
    /\ \A t \in Texts : \A sc \in {"user_input", "ai_output"} :
          /\ run_pipeline(compiled_rules, t, sc)
               = [exc |-> "none", text |-> FoldRules(compiled_rules, Len(compiled_rules), t, sc)]
          /\ NoRuleFor(compiled_rules, sc) => run_pipeline(compiled_rules, t, sc).text = t
    /\ (call.hook = "request" /\ call.piped /\ call.request_in.prompt.isStr) =>
          call.request.prompt.text
            = FoldRules(compiled_rules, Len(compiled_rules),
                        call.request_in.prompt.text, "user_input")
    /\ (call.hook = "response" /\ call.piped /\ call.fallback) =>
          call.response.completion_text
            = FoldRules(compiled_rules, Len(compiled_rules),
                        call.response_in.completion_text, "ai_output")

\* C14 witness: a flat completion text went through two stored rules, the
\* second of which substituted in what the first had written; the second rule
\* alone, and the two rules in the other order, give another text
C14_Witness ==
    /\ call.hook = "response" /\ call.piped /\ call.fallback
    /\ Len(compiled_rules) = 2
    /\ applies_to(compiled_rules[1], "ai_output")
    /\ applies_to(compiled_rules[2], "ai_output")
    /\ LET t == call.response_in.completion_text
           first == re_sub(compiled_rules[1].compiled, compiled_rules[1].replacement, t).text
           second == re_sub(compiled_rules[2].compiled, compiled_rules[2].replacement, first).text
       IN  /\ first # t
           /\ second # first
           /\ call.response.completion_text = second
           /\ second # re_sub(compiled_rules[2].compiled, compiled_rules[2].replacement, t).text
           /\ second # run_pipeline(<<compiled_rules[2], compiled_rules[1]>>, t, "ai_output").text

\* the stored rule was compiled from the entry of raw_rules at its
\* origin_index, an enabled dict entry whose non-empty pattern compiles
FromCompiledEntry(rule, raw_rules) ==
    /\ rule.origin_index + 1 \in 1..Len(raw_rules)
    /\ LET Made(item) ==
             /\ item.dict
             /\ Truthy(Get(item.enabled, "<True>"))
             /\ Truthy(Get(item.pattern, ""))
             /\ CompileOf(item).exc = "none"
             /\ rule.compiled = CompileOf(item).compiled
             /\ rule.replacement = ReplacementOf(item)
       IN  Made(raw_rules[rule.origin_index + 1])

\* C16: the snapshot is empty after construction, and every step either
\* leaves snapshot and signature as they are or stores the signature of the
\* configuration it reads together with a snapshot in which every rule was
\* compiled from an enabled dict entry of that configuration with a non-empty
\* pattern that compiles under its flags, no two rules from the same entry,
\* and in which no disabled, empty-pattern, uncompilable or non-dict entry has
\* a rule.
C16_SnapshotFromCompiledEntries ==
    /\ compiled_rules = <<>> /\ signature = <<>>
    /\ [][ \/ compiled_rules' = compiled_rules /\ signature' = signature
           \/ /\ config' = config
              /\ refresh'.swapped
              /\ signature' = SigOf(config)
              /\ \A k \in 1..Len(compiled_rules') :
                    /\ FromCompiledEntry(compiled_rules'[k], RawRules(config))
                    /\ \A j \in 1..Len(compiled_rules') :
                          j # k => compiled_rules'[j].origin_index
                                     # compiled_rules'[k].origin_index
              /\ \A i \in 1..Len(RawRules(config)) :
                    ~Compilable(RawRules(config)[i]) =>
                       \A k \in 1..Len(compiled_rules') :
                          compiled_rules'[k].origin_index # i - 1
         ]_vars

\* C16 witness: a hook ran the pipeline over the snapshot of a configuration
\* whose first entry is dropped and whose second entry has the only rule
C16_Witness ==
    /\ call.hook # "none" /\ call.piped
    /\ signature = SigOf(config)
    /\ Len(RawRules(config)) >= 2
    /\ ~Compilable(RawRules(config)[1])
    /\ Len(compiled_rules) = 1
    /\ compiled_rules[1].origin_index = 1

\* the two booleans say what the snapshot holds, and the last hook, if its
\* refresh returned and the snapshot holds a rule for its scope, ran the
\* pipeline
FlagsAgreeWithSnapshot ==
    /\ has_user_scoped_rules
         <=> \E i \in 1..Len(compiled_rules) :
                compiled_rules[i].scope \in {"user_input", "both"}
    /\ has_ai_scoped_rules
         <=> \E i \in 1..Len(compiled_rules) :
                compiled_rules[i].scope \in {"ai_output", "both"}
    /\ (call.hook = "request" /\ call.refreshed /\ call.exc = "none"
          /\ ~NoRuleFor(compiled_rules, "user_input")) => call.piped
    /\ (call.hook = "response" /\ call.refreshed /\ call.exc = "none"
          /\ ~NoRuleFor(compiled_rules, "ai_output")) => call.piped

\* C17: in every reachable state has_user_scoped_rules is true exactly when
\* the snapshot holds a rule of scope user_input or both, and
\* has_ai_scoped_rules exactly when it holds one of scope ai_output or both,
\* so that no hook skips the pipeline while a rule for its scope is stored;
\* and snapshot, booleans and signature are replaced together: a step that
\* changes one of them is a swap of a refresh and changes the signature.
C17_FlagsMatchSnapshot ==
    /\ []FlagsAgreeWithSnapshot
    /\ [][ Cache' # Cache =>
             /\ refresh'.ran /\ refresh'.swapped
             /\ signature' # signature
             /\ signature' = SigOf(config)
         ]_vars

\* C17 witness: a swap stored a snapshot whose first rule is for ai_output
\* only and whose second rule is for user_input only, both booleans are true,
\* and the request hook ran the pipeline
C17_Witness ==
    /\ call.hook = "request" /\ call.piped
    /\ refresh.ran /\ refresh.swapped
    /\ Len(compiled_rules) = 2
    /\ compiled_rules[1].scope = "ai_output"
    /\ compiled_rules[2].scope = "user_input"
    /\ has_user_scoped_rules /\ has_ai_scoped_rules

\* the raw scope values of the model with the scope each one stands for
ScopeTable ==
    { <<None, "ai_output">>, <<"<int 7>", "ai_output">>, <<"<True>", "ai_output">>,
      <<"", "ai_output">>, <<"bogus", "ai_output">>,
      <<"ai_output", "ai_output">>, <<"user_input", "user_input">>,
      <<"both", "both">>, <<" Both ", "both">>, <<"USER_INPUT", "user_input">> }

\* the entry's scope is absent, not a string, or none of the three scopes
InvalidScope(item) ==
    \E row \in ScopeTable :
        /\ row[1] = Get(item.scope, None)
        /\ row[1] \notin {"ai_output", "user_input", "both", " Both ", "USER_INPUT"}

\* C18: _normalize_scope gives a scope for every raw value: the trimmed and
\* lower-cased value if that is user_input, ai_output or both, and ai_output
\* for an absent value, a value that is not a string and any other string.
\* A rule compiled from an entry with such a missing or invalid scope has
\* scope ai_output and leaves every user_input text as it is, and a request
\* handled under a configuration of such entries only comes back unchanged.
C18_ScopeFallsBackToOutput ==
    /\ [](\A row \in ScopeTable : normalize_scope(row[1]).scope = row[2])
    /\ [][ (StepRefreshes /\ refresh'.ran /\ refresh'.exc = "none") =>
             /\ refresh'.swapped =>
                   \A k \in 1..Len(compiled_rules') :
                      InvalidScope(RawRules(config)[compiled_rules'[k].origin_index + 1]) =>
                         /\ compiled_rules'[k].scope = "ai_output"
                         /\ \A t \in Texts :
                               run_pipeline(<<compiled_rules'[k]>>, t, "user_input").text = t
             /\ (/\ call'.hook = "request" /\ call'.refreshed
                 /\ \A i \in 1..Len(RawRules(config)) : InvalidScope(RawRules(config)[i]))
                   => call'.request = call'.request_in
         ]_vars

\* C18 witness: the request hook ran the pipeline (a rule of scope " Both "
\* is stored as both) and changed the prompt, while a stored rule from an
\* entry with a missing or invalid scope, whose pattern matches the prompt,
\* is stored with scope ai_output
C18_Witness ==
    /\ call.hook = "request" /\ call.piped
    /\ call.request_in.prompt.isStr
    /\ call.request # call.request_in
    /\ signature = SigOf(config)
    /\ \E k \in 1..Len(compiled_rules) :
          /\ InvalidScope(RawRules(config)[compiled_rules[k].origin_index + 1])
          /\ compiled_rules[k].scope = "ai_output"
          /\ MatchesIn(compiled_rules[k], call.request_in.prompt.text)

\* snapshot, booleans and signature are the ones a refresh of one
\* configuration stores
FromOneRead(c) == \E cfg \in AsyncConfigs : c = FreshCache(cfg)

\* what the coroutine task, run in this step, did with its refresh and its
\* pipeline
RanAtomically(task) ==
    /\ call'.hook = task.hook
    /\ call'.request_in = task.request /\ call'.response_in = task.response
    /\ call'.exc = "none"
    /\ call'.refreshed <=> is_enabled(config)
    /\ IF call'.refreshed /\ refresh'.swapped
       THEN Cache' = FreshCache(config) /\ Cache' # Cache
       ELSE Cache' = Cache
    /\ task.hook = "request" =>
          /\ call'.piped <=> (call'.refreshed /\ has_user_scoped_rules')
          /\ call'.request
               = IF call'.piped
                 THEN RequestPipeline([cache |-> Cache', did |-> refresh'], task.request).request
                 ELSE task.request
    /\ task.hook = "response" =>
          /\ call'.piped <=> (call'.refreshed /\ has_ai_scoped_rules')
          /\ call'.response
               = IF call'.piped
                 THEN ResponsePipeline([cache |-> Cache', did |-> refresh'], task.response).response
                 ELSE task.response

\* C19: hook coroutines are created concurrently and run in any order, with
\* configuration changes between them.  In every state snapshot, booleans and
\* signature stem from one read of one configuration; creating a coroutine
\* and changing the configuration leave them alone; and a coroutine, once it
\* runs, reads the configuration, compares, swaps if the signature changed
\* and applies the snapshot its own refresh left, in one step: the texts it
\* writes are the ones the pipeline gives over the snapshot stored when it
\* returns.
C19_RefreshAndApplyAtomic ==
    /\ []FromOneRead(Cache)
    /\ [][ /\ (phase = "ready" /\ pending \subseteq pending') => Cache' = Cache
           /\ (pending' # pending /\ pending' \subseteq pending) =>
                 /\ config' = config
                 /\ \E task \in pending : pending' = pending \ {task} /\ RanAtomically(task)
         ]_vars

\* C19 witness: a response coroutine ran, its refresh swapped the snapshot
\* (the configuration had changed) and its pipeline rewrote the text, while a
\* request coroutine created before that swap is still waiting to run
C19_Witness ==
    /\ call.hook = "response" /\ call.piped /\ call.refreshed
    /\ refresh.swapped
    /\ call.response # call.response_in
    /\ \E task \in pending : task.hook = "request"
    /\ Cache = FreshCache(config)

----------------------------------------------------------------------------
(* Claims the code does not meet *)

\* C4: a refresh whose computed signature equals the stored one compiles no
\* pattern and logs no per-rule warning or error.
C4_NoRecompileWhenUnchanged ==
    (refresh.ran /\ refresh.sig_equal) => (refresh.compiles = 0 /\ refresh.logs = 0)

\* C7: no hook invocation raises, whatever the configuration holds.
C7_HooksNeverRaise == call.exc = "none"

\* every dict entry has an order that int() converts or _safe_int replaces
OrdersConvert(raw_rules) ==
    \A i \in 1..Len(raw_rules) :
        raw_rules[i].dict => safe_int(Get(raw_rules[i].order, None), 0).exc = "none"

\* C8: a refresh over a raw list with an entry whose pattern fails to compile
\* under its translated flags completes, and every enabled entry with a
\* non-empty, compilable pattern has its rule in the snapshot.
C8_CompileFailureDropsOnlyThatRule ==
    [][ (/\ StepRefreshes
         /\ OrdersConvert(RawRules(config))
         /\ \E i \in 1..Len(RawRules(config)) : CompileFails(RawRules(config)[i]))
        => /\ refresh'.ran /\ refresh'.exc = "none"
           /\ signature' = SigOf(config)
           /\ \A i \in 1..Len(RawRules(config)) :
                 Compilable(RawRules(config)[i]) =>
                    \E k \in 1..Len(compiled_rules') :
                       compiled_rules'[k].origin_index = i - 1
      ]_vars

\* C10: whenever rules_json parses as a JSON array, of any length, the
\* refresh works on that array and does not use `rules`: it leaves the cache
\* it would leave were `rules` absent.  Otherwise it works on `rules`.
C10_JsonArrayPreferred ==
    [][ StepRefreshes =>
          /\ config.rules_json.kind = "array" =>
                Cache' = ensure_rules([config EXCEPT !.rules = [kind |-> "missing",
                                                                items |-> <<>>]],
                                      Cache).cache
          /\ config.rules_json.kind # "array" =>
                Cache' = ensure_rules([config EXCEPT !.rules_json = NoJson], Cache).cache
      ]_vars

\* C11: the signature a refresh computes holds one tuple per entry of the raw
\* list, entries that are not dicts included, so that a raw list with one more
\* entry that is not a dict has another signature.
C11_OneTuplePerRawEntry ==
    [][ (StepRefreshes /\ refresh'.ran /\ refresh'.exc = "none") =>
          /\ signature' = SigOf(config)
          /\ Len(signature') = Len(RawRules(config))
          /\ \A c0 \in FaultConfigs :
                RawRules(config) = Append(RawRules(c0), NotDict) => SigOf(c0) # signature'
      ]_vars

\* what a rule sequence does: the rules without their original position
RECURSIVE Behaviour(_)
Behaviour(rules) ==
    IF rules = <<>> THEN <<>>
    ELSE <<[identifier |-> Head(rules).identifier, scope |-> Head(rules).scope,
            order |-> Head(rules).order, compiled |-> Head(rules).compiled,
            replacement |-> Head(rules).replacement]>> \o Behaviour(Tail(rules))

\* C15: after the refresh of initialize() or of a hook has returned, the
\* stored rule sequence is the one compiling the current configuration from
\* scratch gives (same rules with the same scope, pattern, flags, replacement
\* and order, in the same sequence), and the hook returns the text that
\* sequence gives.
C15_CacheNeverStale ==
    [][ (StepRefreshes /\ refresh'.ran /\ refresh'.exc = "none") =>
          /\ Behaviour(compiled_rules') = Behaviour(FreshCache(config).compiled_rules)
          /\ call'.hook = "request" =>
                call'.request
                  = on_llm_request(config, FreshCache(config), call'.request_in).request
          /\ call'.hook = "response" =>
                call'.response
                  = on_llm_response(config, FreshCache(config), call'.response_in).response
      ]_vars


====
